---- MODULE Spec2Model ----
(***************************************************************************)
(* The job-scout web application:                                          *)
(*   - the resume text reconstructor (function reconstructResumeText),     *)
(*     one call of it and several calls in flight;                         *)
(*   - the handlers of POST /api/parse/resume and POST /api/chat;          *)
(*   - the All Jobs page with its Filters component.                       *)
(*                                                                         *)
(* A text is a sequence of one-character strings.  The characters that the *)
(* regular expressions of the reconstructor tell apart are represented by  *)
(* one member of each class.                                               *)
(***************************************************************************)
EXTENDS Integers, Sequences, FiniteSets

VARIABLES input, pc, normalized, dehyphenated, lines, i, out, buf, result

\* the rest of the web application: one request to POST /api/parse/resume,
\* concurrent calls of the reconstructor, one request to POST /api/chat,
\* the All Jobs page and its Filters component
VARIABLES upload, calls, chat, home, state

\* what a call of reconstructResumeText cannot touch
outside == <<upload, calls, chat, home, state>>

vars == <<input, pc, normalized, dehyphenated, lines, i, out, buf, result,
          upload, calls, chat, home, state>>

\* a part of the application that is not running
Idle == [pc |-> "idle"]

-----------------------------------------------------------------------------
(* Characters *)

LF == "\n"
CR == "\r"
TAB == "\t"
SP == " "
\* U+00A0 NO-BREAK SPACE: white space for \s and trim(), and NFKC maps it to U+0020
NBSP == "U+00A0"
HYPHEN == "-"

\* the class \s of JavaScript regular expressions, also what trim() strips
\* (the ASCII white space, the line and paragraph separators, the no-break
\* space and the byte order mark; the other Unicode spaces behave as these)
WhiteSpaceChars == {SP, TAB, LF, CR, NBSP, "\f", "U+000B", "U+2028", "U+2029", "U+FEFF"}

\* [ \t]
BlankChars == {SP, TAB}

\* [A-Za-z]
LetterChars ==
    {"A", "B", "C", "D", "E", "F", "G", "H", "I", "J", "K", "L", "M",
     "N", "O", "P", "Q", "R", "S", "T", "U", "V", "W", "X", "Y", "Z",
     "a", "b", "c", "d", "e", "f", "g", "h", "i", "j", "k", "l", "m",
     "n", "o", "p", "q", "r", "s", "t", "u", "v", "w", "x", "y", "z"}

\* \d
DigitChars == {"0", "1", "2", "3", "4", "5", "6", "7", "8", "9"}

\* [-*U+2022 U+2023 U+25AA U+25E6]
BulletMarkChars == {HYPHEN, "*", "U+2022", "U+2023", "U+25AA", "U+25E6"}

\* [:;] and \) of hardBreakAfter
HardBreakChars == {":", ";", ")"}

\* [.!?]
TerminalChars == {".", "!", "?"}

\* ["')\]]
CloserChars == {"\"", "'", ")", "]"}

\* [ \n\r] in place of \s
IsSpaceNoTab(c) == c \in {SP, LF, CR}

IsSpace(c) == c \in WhiteSpaceChars

\* [A-Za-z0-9] in place of [A-Za-z]
IsLetterOrDigit(c) == c \in LetterChars \cup DigitChars

IsLetter(c) == c \in LetterChars

IsDigit(c) == c \in DigitChars

-----------------------------------------------------------------------------
(* String primitives *)

Last(s) == s[Len(s)]

\* String.prototype.trimEnd, and replace(/\s+$/g, "")
RECURSIVE TrimEnd(_)
TrimEnd(s) ==
    IF s # <<>> /\ IsSpace(Last(s)) THEN TrimEnd(SubSeq(s, 1, Len(s) - 1)) ELSE s

RECURSIVE TrimStart(_)
TrimStart(s) ==
    IF s # <<>> /\ IsSpace(Head(s)) THEN TrimStart(Tail(s)) ELSE s

\* trimEnd() in place of trim()
TrimOnlyEnd(s) == TrimEnd(s)

\* String.prototype.trim
Trim(s) == TrimStart(TrimEnd(s))

\* String.prototype.normalize("NFKC"), on the characters of the model: the
\* no-break space has the compatibility decomposition <noBreak> U+0020
NFKC(s) == [k \in 1..Len(s) |-> IF s[k] = NBSP THEN SP ELSE s[k]]

\* replace(/\r/g, "")
StripCR(s) == SelectSeq(s, LAMBDA c : c # CR)

\* String.prototype.split("\n"): the pieces between the line feeds, "" gives [""]
RECURSIVE SplitFrom(_, _, _)
SplitFrom(s, k, piece) ==
    IF k > Len(s) THEN <<piece>>
    ELSE IF s[k] = LF THEN <<piece>> \o SplitFrom(s, k + 1, <<>>)
    ELSE SplitFrom(s, k + 1, Append(piece, s[k]))

Split(s) == SplitFrom(s, 1, <<>>)

\* Array.prototype.join("\n")
RECURSIVE Join(_)
Join(ls) ==
    IF ls = <<>> THEN <<>>
    ELSE IF Len(ls) = 1 THEN ls[1]
    ELSE ls[1] \o <<LF>> \o Join(Tail(ls))

-----------------------------------------------------------------------------
(* The steps of reconstructResumeText *)

\* replace(/([A-Za-z])-\n(?=[A-Za-z])/g, "$1"): scanning from the left, a
\* letter, a hyphen and a line feed that a letter follows become the letter
RECURSIVE DehyphenateFrom(_, _)
DehyphenateFrom(s, k) ==
    IF k > Len(s) THEN <<>>
    ELSE IF /\ k + 3 <= Len(s)
            /\ IsLetter(s[k])
            /\ s[k + 1] = HYPHEN
            /\ s[k + 2] = LF
            /\ IsLetter(s[k + 3])
         THEN <<s[k]>> \o DehyphenateFrom(s, k + 3)
         ELSE <<s[k]>> \o DehyphenateFrom(s, k + 1)

Dehyphenate(s) == DehyphenateFrom(s, 1)

\* .replace(/\r/g, "").split("\n").map((l) => l.replace(/\s+$/g, ""))
SplitLines(s) ==
    LET parts == Split(StripCR(s))
    IN  [k \in 1..Len(parts) |-> TrimEnd(parts[k])]

\* bullets = /^(\s*[-*...]|(\s*\d+[\.)]))\s+/
RECURSIVE DigitsEnd(_, _)
DigitsEnd(s, k) ==
    IF k <= Len(s) /\ IsDigit(s[k]) THEN DigitsEnd(s, k + 1) ELSE k

\* /^(\s*[-*...])\s+/, the numbered alternative left out
bulletsMarksOnly(s) ==
    LET t == TrimStart(s)
    IN  Len(t) >= 2 /\ t[1] \in BulletMarkChars /\ IsSpace(t[2])

bullets(s) ==
    LET t == TrimStart(s)
        d == DigitsEnd(t, 1)
    IN  \/ /\ Len(t) >= 2
           /\ t[1] \in BulletMarkChars
           /\ IsSpace(t[2])
        \/ /\ d > 1
           /\ d + 1 <= Len(t)
           /\ t[d] \in {".", ")"}
           /\ IsSpace(t[d + 1])

\* /^\s*[-*...]|\)\s*$/, the alternative [:;]\s*$ left out
hardBreakAfterNoColon(s) ==
    LET e == TrimEnd(s)
        t == TrimStart(s)
    IN  \/ e # <<>> /\ Last(e) = ")"
        \/ t # <<>> /\ Head(t) \in BulletMarkChars

\* hardBreakAfter = /[:;]\s*$|^\s*[-*...]|\)\s*$/
hardBreakAfter(s) ==
    LET e == TrimEnd(s)
        t == TrimStart(s)
    IN  \/ e # <<>> /\ Last(e) \in HardBreakChars
        \/ t # <<>> /\ Head(t) \in BulletMarkChars

\* /[.!?]\s*$/, the optional closing quote or bracket left out
sentenceEndNoCloser(s) ==
    LET e == TrimEnd(s)
    IN  e # <<>> /\ Last(e) \in TerminalChars

\* sentenceEnd = /[.!?]["')\]]?\s*$/
sentenceEnd(s) ==
    LET e == TrimEnd(s)
        n == Len(e)
    IN  \/ n >= 1 /\ e[n] \in TerminalChars
        \/ n >= 2 /\ e[n] \in CloserChars /\ e[n - 1] \in TerminalChars

\* flush that pushes the paragraph also when it is empty
flushAlways(st) == [out |-> Append(st.out, Trim(st.buf)), buf |-> <<>>]

\* flush that pushes the paragraph and keeps it in buf
flushNoReset(st) ==
    LET s == Trim(st.buf)
    IN  [out |-> IF s # <<>> THEN Append(st.out, s) ELSE st.out, buf |-> st.buf]

\* the closure flush: out and buf are the pair it works on
flush(st) ==
    LET s == Trim(st.buf)
    IN  [out |-> IF s # <<>> THEN Append(st.out, s) ELSE st.out, buf |-> <<>>]

\* buf += (buf ? " " : "") + cur
AddToBuf(st, cur) ==
    [st EXCEPT !.buf = (IF st.buf # <<>> THEN st.buf \o <<SP>> ELSE <<>>) \o cur]

\* const cur = lines[i].trim(), with i counted from 0
CurOf(ls, k) == Trim(ls[k + 1])

\* const next = (lines[i + 1] || "").trim()
NextOf(ls, k) == IF k + 2 <= Len(ls) THEN Trim(ls[k + 2]) ELSE <<>>

joinSoftly(cur, next) ==
    /\ Len(cur) > 0
    /\ ~sentenceEnd(cur)
    /\ ~hardBreakAfter(cur)
    /\ next # <<>>
    /\ ~bullets(next)

\* one pass of the body of the for loop
LoopBody(st, cur, next) ==
    IF cur = <<>> THEN flush(st)
    ELSE IF bullets(cur) THEN
        LET f == flush(st) IN [f EXCEPT !.out = Append(f.out, cur)]
    ELSE IF joinSoftly(cur, next) THEN AddToBuf(st, cur)
    ELSE flush(AddToBuf(st, cur))

\* replace(/[ \t]+\n/g, "\n"): a run of spaces and tabs that a line feed ends
RECURSIVE BlankRunEnd(_, _)
BlankRunEnd(s, k) ==
    IF k <= Len(s) /\ s[k] \in BlankChars THEN BlankRunEnd(s, k + 1) ELSE k

RECURSIVE StripBlanksBeforeLF(_, _)
StripBlanksBeforeLF(s, k) ==
    IF k > Len(s) THEN <<>>
    ELSE LET e == BlankRunEnd(s, k)
         IN  IF e > k /\ e <= Len(s) /\ s[e] = LF
             THEN <<LF>> \o StripBlanksBeforeLF(s, e + 1)
             ELSE IF e > k
             THEN SubSeq(s, k, e - 1) \o StripBlanksBeforeLF(s, e)
             ELSE <<s[k]>> \o StripBlanksBeforeLF(s, k + 1)

\* replace(/\n{3,}/g, "\n\n")
RECURSIVE LFRunEnd(_, _)
LFRunEnd(s, k) ==
    IF k <= Len(s) /\ s[k] = LF THEN LFRunEnd(s, k + 1) ELSE k

RECURSIVE CollapseLF(_, _)
CollapseLF(s, k) ==
    IF k > Len(s) THEN <<>>
    ELSE LET e == LFRunEnd(s, k)
         IN  IF e - k >= 3 THEN <<LF, LF>> \o CollapseLF(s, e)
             ELSE IF e > k THEN SubSeq(s, k, e - 1) \o CollapseLF(s, e)
             ELSE <<s[k]>> \o CollapseLF(s, k + 1)

\* return out.join("\n").replace(/[ \t]+\n/g, "\n").replace(/\n{3,}/g, "\n\n").trim()
Tidy(o) == Trim(CollapseLF(StripBlanksBeforeLF(Join(o), 1), 1))

\* the for loop from line k on
RECURSIVE LoopFrom(_, _, _)
LoopFrom(ls, k, st) ==
    IF k >= Len(ls) THEN st
    ELSE LoopFrom(ls, k + 1, LoopBody(st, CurOf(ls, k), NextOf(ls, k)))

\* the function as a whole
reconstructResumeText(s) ==
    LET ls == SplitLines(Dehyphenate(NFKC(s)))
        st == flush(LoopFrom(ls, 0, [out |-> <<>>, buf |-> <<>>]))
    IN  Tidy(st.out)

-----------------------------------------------------------------------------
(* Inputs *)

MaxLen == 4
MaxLenCR == 5
MaxLenList == 6
MaxLenDash == 7

\* a letter, a digit, the hyphen, white space, a line feed, terminal and
\* hard-break punctuation and a closing quote
Alphabet == {"a", "1", HYPHEN, SP, NBSP, LF, ".", ":", ")", "\""}

\* line endings and white space: carriage return and tab
AlphabetCR == {"a", HYPHEN, SP, TAB, LF, CR}

\* numbered list items
AlphabetList == {"a", "1", ")", SP, LF}

\* bullets
AlphabetDash == {"a", HYPHEN, SP, LF}

Texts(alphabet, n) == UNION {[1..k -> alphabet] : k \in 0..n}

-----------------------------------------------------------------------------
(* The state machine: one call of reconstructResumeText(input) *)

InitWith(texts) ==
    /\ input \in texts
    /\ pc = "normalize"
    /\ normalized = <<>>
    /\ dehyphenated = <<>>
    /\ lines = <<>>
    /\ i = 0
    /\ out = <<>>
    /\ buf = <<>>
    /\ result = <<>>
    /\ upload = Idle
    /\ calls = Idle
    /\ chat = Idle
    /\ home = Idle
    /\ state = Idle

Init == InitWith(Texts(Alphabet, MaxLen))

InitCR == InitWith(Texts(AlphabetCR, MaxLenCR))

InitList ==
    InitWith(Texts(AlphabetList, MaxLenList) \cup Texts(AlphabetDash, MaxLenDash))

Normalize ==
    /\ pc = "normalize"
    /\ normalized' = NFKC(input)
    /\ pc' = "dehyphenate"
    /\ UNCHANGED <<input, dehyphenated, lines, i, out, buf, result>>
    /\ UNCHANGED outside

Unwrap ==
    /\ pc = "dehyphenate"
    /\ dehyphenated' = Dehyphenate(normalized)
    /\ pc' = "split"
    /\ UNCHANGED <<input, normalized, lines, i, out, buf, result>>
    /\ UNCHANGED outside

SplitIntoLines ==
    /\ pc = "split"
    /\ lines' = SplitLines(dehyphenated)
    /\ i' = 0
    /\ out' = <<>>
    /\ buf' = <<>>
    /\ pc' = "loop"
    /\ UNCHANGED <<input, normalized, dehyphenated, result>>
    /\ UNCHANGED outside

InLoop == pc = "loop" /\ i < Len(lines)

cur == CurOf(lines, i)

next == NextOf(lines, i)

Iterate ==
    LET st == LoopBody([out |-> out, buf |-> buf], cur, next)
    IN  /\ out' = st.out
        /\ buf' = st.buf
        /\ i' = i + 1
        /\ UNCHANGED <<input, pc, normalized, dehyphenated, lines, result>>
        /\ UNCHANGED outside

EmptyLine ==
    /\ InLoop
    /\ cur = <<>>
    /\ Iterate

BulletLine ==
    /\ InLoop
    /\ cur # <<>>
    /\ bullets(cur)
    /\ Iterate

JoinLine ==
    /\ InLoop
    /\ cur # <<>>
    /\ ~bullets(cur)
    /\ joinSoftly(cur, next)
    /\ Iterate

BreakLine ==
    /\ InLoop
    /\ cur # <<>>
    /\ ~bullets(cur)
    /\ ~joinSoftly(cur, next)
    /\ Iterate

LoopExit ==
    /\ pc = "loop"
    /\ i >= Len(lines)
    /\ LET st == flush([out |-> out, buf |-> buf])
       IN  out' = st.out /\ buf' = st.buf
    /\ pc' = "tidy"
    /\ UNCHANGED <<input, normalized, dehyphenated, lines, i, result>>
    /\ UNCHANGED outside

Return ==
    /\ pc = "tidy"
    /\ result' = Tidy(out)
    /\ pc' = "done"
    /\ UNCHANGED <<input, normalized, dehyphenated, lines, i, out, buf>>
    /\ UNCHANGED outside

Next ==
    \/ Normalize
    \/ Unwrap
    \/ SplitIntoLines
    \/ EmptyLine
    \/ BulletLine
    \/ JoinLine
    \/ BreakLine
    \/ LoopExit
    \/ Return

Spec == Init /\ [][Next]_vars

SpecCR == InitCR /\ [][Next]_vars

SpecList == InitList /\ [][Next]_vars

Done == pc = "done"

-----------------------------------------------------------------------------
(* Vocabulary of the properties *)

IsWhite(c) == c \in WhiteSpaceChars

IsAlpha(c) == c \in LetterChars

\* t occurs in s at position k
OccursAt(s, t, k) ==
    /\ k >= 1
    /\ k + Len(t) - 1 <= Len(s)
    /\ \A j \in 1..Len(t) : s[k + j - 1] = t[j]

Occurs(s, t) == \E k \in 1..Len(s) : OccursAt(s, t, k)

CountOf(s, c) == Cardinality({k \in 1..Len(s) : s[k] = c})

\* the lines of a text: the maximal pieces without a line feed
RECURSIVE LinesOf(_)
LinesOf(s) ==
    IF \A k \in 1..Len(s) : s[k] # LF THEN <<s>>
    ELSE LET k == CHOOSE j \in 1..Len(s) : s[j] = LF /\ \A m \in 1..(j - 1) : s[m] # LF
         IN  <<SubSeq(s, 1, k - 1)>> \o LinesOf(SubSeq(s, k + 1, Len(s)))

\* a line without its leading and trailing white space
RECURSIVE Stripped(_)
Stripped(s) ==
    IF s = <<>> THEN s
    ELSE IF IsWhite(s[1]) THEN Stripped(SubSeq(s, 2, Len(s)))
    ELSE IF IsWhite(s[Len(s)]) THEN Stripped(SubSeq(s, 1, Len(s) - 1))
    ELSE s

IsBlank(s) == \A k \in 1..Len(s) : IsWhite(s[k])

NoOuterWhite(s) == s = <<>> \/ (~IsWhite(s[1]) /\ ~IsWhite(s[Len(s)]))

\* steps left before the call returns
Measure ==
    CASE pc = "normalize" -> Len(input) + 6
      [] pc = "dehyphenate" -> Len(input) + 5
      [] pc = "split" -> Len(input) + 4
      [] pc = "loop" -> Len(lines) - i + 2
      [] pc = "tidy" -> 1
      [] pc = "done" -> 0

-----------------------------------------------------------------------------
(* C1 *)

\* C1: for every input the call terminates (the number of steps left is a
\* natural number that every step lowers and that is zero only once the call
\* has returned) and the string returned has no leading or trailing white
\* space and no run of three or more line feeds.
C1_TerminatesClean ==
    /\ [](Measure \in Nat /\ (Measure = 0 <=> Done))
    /\ [][Measure' < Measure]_vars
    /\ [](Done => NoOuterWhite(result) /\ ~Occurs(result, <<LF, LF, LF>>))

\* text on both sides of three line feeds in a row has been reconstructed
C1_Witness ==
    /\ Done
    /\ \E k \in 1..Len(input) :
          /\ OccursAt(input, <<LF, LF, LF>>, k)
          /\ k > 1 /\ IsAlpha(input[k - 1])
          /\ k + 3 <= Len(input) /\ IsAlpha(input[k + 3])
    /\ Len(LinesOf(result)) = 2

-----------------------------------------------------------------------------
(* C2 *)

\* line k of the split text is blank and stands between two lines with text
SeparatesText(k) ==
    /\ k > 1 /\ k < Len(lines)
    /\ IsBlank(lines[k])
    /\ ~IsBlank(lines[k - 1])
    /\ ~IsBlank(lines[k + 1])

\* C2: a blank line between a paragraph and the lines after it is kept as one
\* paragraph break: in the output the text before it and the text after it
\* are separated by exactly one blank line (two line feeds in a row).
C2_BlankLineKept ==
    Done =>
        \A k \in 1..Len(lines) :
            SeparatesText(k) =>
                Occurs(result, <<Last(Stripped(lines[k - 1])), LF, LF,
                                 Head(Stripped(lines[k + 1]))>>)

-----------------------------------------------------------------------------
(* C3 *)

\* C3: the function is idempotent on its own outputs: reconstructing the
\* returned text again returns it unchanged.
C3_Idempotent == Done => reconstructResumeText(result) = result

-----------------------------------------------------------------------------
(* C4 *)

ListMarkChars == {"-", "*", "U+2022", "U+2023", "U+25AA", "U+25E6"}

IsNumeral(c) == c \in {"0", "1", "2", "3", "4", "5", "6", "7", "8", "9"}

\* the text begins with digits that "." or ")" follows, ending at position d + 1
NumberedUpTo(s, d) ==
    /\ d >= 1
    /\ d + 1 <= Len(s)
    /\ \A j \in 1..d : IsNumeral(s[j])
    /\ s[d + 1] \in {".", ")"}

\* the text begins with a list marker
StartsWithMarker(s) ==
    /\ s # <<>>
    /\ \/ s[1] \in ListMarkChars
       \/ \E d \in 1..Len(s) : NumberedUpTo(s, d)

\* the text begins with a list marker that white space and the item follow
IsListItem(s) ==
    /\ s # <<>>
    /\ \/ Len(s) >= 2 /\ s[1] \in ListMarkChars /\ IsWhite(s[2])
       \/ \E d \in 1..Len(s) :
            NumberedUpTo(s, d) /\ d + 2 <= Len(s) /\ IsWhite(s[d + 2])

StrippedAll(ls) == [k \in 1..Len(ls) |-> Stripped(ls[k])]

ListItemsOf(ls) == SelectSeq(StrippedAll(ls), IsListItem)

\* C4 as claimed: every input line that begins with a list marker is an
\* output line of its own, equal to its trimmed text (read in the claim's
\* favour: the lines are those left once the soft hyphens are unwrapped).
C4_MarkerLinesAlone ==
    Done =>
        \A k \in 1..Len(lines) :
            LET l == Stripped(lines[k])
            IN  StartsWithMarker(l) =>
                    \E m \in 1..Len(LinesOf(result)) : LinesOf(result)[m] = l

\* C4 as amended: every line of the text, after the soft hyphens are
\* unwrapped and the carriage returns removed, that begins with a list marker
\* followed by white space is an output line of its own, equal to its trimmed
\* text: the list items of the output are those of the lines, in order; and
\* at a list item the pending paragraph is flushed first and the buffer is
\* left empty, so the item is joined neither to the previous nor to the next
\* line.
C4_ListItemsAlone ==
    /\ [](Done => ListItemsOf(LinesOf(result)) = ListItemsOf(lines))
    /\ [][(InLoop /\ IsListItem(Stripped(lines[i + 1]))) =>
            /\ buf' = <<>>
            /\ out' = (IF buf # <<>> THEN Append(out, Stripped(buf)) ELSE out)
                          \o <<Stripped(lines[i + 1])>>]_vars

\* a list item between a line without terminal punctuation and a line of
\* text has been emitted as the second of three output lines
C4_Witness ==
    /\ Done
    /\ \E k \in 2..(Len(lines) - 1) :
          /\ IsListItem(Stripped(lines[k]))
          /\ lines[k - 1] # <<>> /\ IsAlpha(Last(lines[k - 1]))
          /\ lines[k + 1] # <<>> /\ IsAlpha(lines[k + 1][1])
    /\ Len(LinesOf(result)) = 3
    /\ IsListItem(LinesOf(result)[2])

-----------------------------------------------------------------------------
(* C5 *)

EndsSentence(s) ==
    LET n == Len(s)
    IN  \/ n >= 1 /\ s[n] \in {".", "!", "?"}
        \/ n >= 2 /\ s[n] \in {"\"", "'", ")", "]"} /\ s[n - 1] \in {".", "!", "?"}

EndsHard(s) == s # <<>> /\ s[Len(s)] \in {":", ";", ")"}

\* the line the loop is at and the one after it, trimmed
ThisLine == Stripped(lines[i + 1])

FollowingLine == IF i + 2 <= Len(lines) THEN Stripped(lines[i + 2]) ELSE <<>>

\* the paragraph so far with this line added
Paragraph == (IF buf # <<>> THEN buf \o <<SP>> ELSE <<>>) \o ThisLine

JoinAsClaimed ==
    /\ ~EndsSentence(ThisLine)
    /\ ~EndsHard(ThisLine)
    /\ FollowingLine # <<>>
    /\ ~IsListItem(FollowingLine)

JoinAsAmended == JoinAsClaimed /\ ThisLine[1] \notin ListMarkChars

Joined == buf' = Paragraph /\ out' = out

Emitted == buf' = <<>> /\ out' = Append(out, Paragraph)

AtTextLine == InLoop /\ ThisLine # <<>> /\ ~IsListItem(ThisLine)

-----------------------------------------------------------------------------
(* C6 *)

IsSuffix(t, s) == Len(t) <= Len(s) /\ SubSeq(s, Len(s) - Len(t) + 1, Len(s)) = t

IsPrefix(t, s) == Len(t) <= Len(s) /\ SubSeq(s, 1, Len(t)) = t

\* line k ends in ":", ";" or ")" and a line of text that is no list item follows
HardBreakAt(ls, k) ==
    /\ k >= 1 /\ k < Len(ls)
    /\ EndsHard(Stripped(ls[k]))
    /\ ~IsBlank(ls[k + 1])
    /\ ~IsListItem(Stripped(ls[k + 1]))

\* C6: a line ending in ":", ";" or ")" that a line of text that is no list
\* item follows is not joined with it: the step at that line ends the
\* paragraph, and in the output the following line starts a new line right
\* after the line that ends with it.
C6_HardBreak ==
    /\ [][(InLoop /\ HardBreakAt(lines, i + 1)) => Emitted]_vars
    /\ [](Done =>
            \A k \in 1..Len(lines) :
                HardBreakAt(lines, k) =>
                    \E m \in 1..(Len(LinesOf(result)) - 1) :
                        /\ IsSuffix(Stripped(lines[k]), LinesOf(result)[m])
                        /\ IsPrefix(Stripped(lines[k + 1]), LinesOf(result)[m + 1]))

\* a line ending in a colon and the line of text after it are two output lines
C6_Witness ==
    /\ Done
    /\ HardBreakAt(lines, 1)
    /\ IsAlpha(lines[1][1])
    /\ Last(lines[1]) = ":"
    /\ IsAlpha(lines[2][1])
    /\ result = lines[1] \o <<LF>> \o lines[2]

-----------------------------------------------------------------------------
(* C7, C8 *)

\* the length of the line break at position k of s: LF, or CR LF; 0 if none
BreakLenAt(s, k) ==
    IF k <= Len(s) /\ s[k] = LF THEN 1
    ELSE IF k + 1 <= Len(s) /\ s[k] = CR /\ s[k + 1] = LF THEN 2
    ELSE 0

\* at position k of s: a hyphen after a letter, then a line break, then
\* immediately a letter
SoftBreakAt(s, k) ==
    /\ k > 1 /\ k <= Len(s)
    /\ s[k] = "-"
    /\ IsAlpha(s[k - 1])
    /\ BreakLenAt(s, k + 1) > 0
    /\ k + BreakLenAt(s, k + 1) + 1 <= Len(s)
    /\ IsAlpha(s[k + BreakLenAt(s, k + 1) + 1])

\* s with the hyphen at k and the line break after it taken out
Unbroken(s, k) ==
    SubSeq(s, 1, k - 1) \o SubSeq(s, k + BreakLenAt(s, k + 1) + 1, Len(s))

\* C7: wherever the input has a letter, a hyphen, a line break and then
\* immediately a letter, the output has the two halves of the word joined
\* directly: it is the output for the input written with the word unbroken,
\* the hyphen and the line break taken out and no space put in.
C7_SoftHyphenUnwrapped ==
    Done =>
        \A k \in 1..Len(input) :
            SoftBreakAt(input, k) =>
                result = reconstructResumeText(Unbroken(input, k))

\* C8: a hyphen at the end of a line is removed only when the character
\* before it and the first character after the line break are both letters,
\* and every other hyphen is kept: the output has no more hyphens than the
\* input, and no fewer than the input has apart from those between letters
\* across a line break.
C8_HyphenKept ==
    Done =>
        /\ CountOf(result, "-") <= CountOf(input, "-")
        /\ CountOf(result, "-") >=
              CountOf(input, "-")
                - Cardinality({k \in 1..Len(input) : SoftBreakAt(input, k)})

\* a hyphen at the end of a line, after a character that is no letter and
\* before a line that starts with a letter, is in the output
C8_Witness ==
    /\ Done
    /\ \E k \in 2..(Len(input) - 2) :
          /\ input[k] = "-"
          /\ ~IsAlpha(input[k - 1]) /\ ~IsWhite(input[k - 1])
          /\ input[k + 1] = LF
          /\ IsAlpha(input[k + 2])
    /\ CountOf(input, "-") = 1
    /\ CountOf(result, "-") = 1

-----------------------------------------------------------------------------
(* C9 *)

WithoutCR(s) == SelectSeq(s, LAMBDA c : c # "\r")

\* C9: the output has no carriage return and is the output for the input
\* with every carriage return deleted beforehand.
C9_CRStripped ==
    Done =>
        /\ CountOf(result, "\r") = 0
        /\ result = reconstructResumeText(WithoutCR(input))

-----------------------------------------------------------------------------
(* C10 *)

\* C10: the empty input, and any input of blank or white-space-only lines,
\* gives the empty string.
C10_BlankGivesEmpty == (Done /\ IsBlank(input)) => result = <<>>

\* several lines of white space only have been reconstructed
C10_Witness ==
    /\ Done
    /\ IsBlank(input)
    /\ CountOf(input, LF) >= 2
    /\ CountOf(input, SP) >= 1
    /\ CountOf(input, TAB) >= 1
    /\ result = <<>>

-----------------------------------------------------------------------------
(* POST /api/parse/resume: one request *)

MaxLenUpload == 3

SLASH == "/"

AlphabetUpload == {"a", SP, LF}

UploadTexts == Texts(AlphabetUpload, MaxLenUpload)

\* values of JavaScript that are not all strings
JsString(t) == [type |-> "string", value |-> t]

Undefined == [type |-> "undefined", value |-> <<>>]

JsNumber == [type |-> "number", value |-> <<>>]

JsValues == {Undefined, JsNumber} \cup {JsString(t) : t \in UploadTexts}

\* the environment: a variable that is not set reads as the empty text
EnvValues ==
    [BACKEND_URL : {<<>>, <<SLASH>>, <<"p">>, <<"p", SLASH>>},
     NEXT_PUBLIC_BACKEND_URL : {<<>>, <<"q">>}]

\* u.replace(/\/$/, "")
StripTrailingSlash(u) ==
    IF u # <<>> /\ Last(u) = SLASH THEN SubSeq(u, 1, Len(u) - 1) ELSE u

\* (BACKEND_URL || NEXT_PUBLIC_BACKEND_URL || "").replace(/\/$/, "")
upstreamOf(env) ==
    StripTrailingSlash(IF env.BACKEND_URL # <<>> THEN env.BACKEND_URL
                       ELSE IF env.NEXT_PUBLIC_BACKEND_URL # <<>>
                            THEN env.NEXT_PUBLIC_BACKEND_URL
                            ELSE <<>>)

\* media types, top "/" sub; the empty type is the one of a file without type
Mime(top, sub) == [top |-> top, sub |-> sub]

MimeTypes ==
    {Mime("", ""), Mime("text", "plain"), Mime("application", "json"),
     Mime("application", "pdf")}

\* mime.startsWith("text/") || mime === "application/json"
readableLocally(mime) ==
    mime.top = "text" \/ mime = Mime("application", "json")

\* what form.get("file") gives: null, a string field or a File
NoField == [kind |-> "null", type |-> Mime("", ""), content |-> <<>>]

StringField == [kind |-> "string", type |-> Mime("", ""), content |-> <<"a">>]

FileOf(mime, t) == [kind |-> "File", type |-> mime, content |-> t]

FormFields ==
    {NoField, StringField} \cup {FileOf(m, t) : m \in MimeTypes, t \in UploadTexts}

\* the body of the request: form data, or a body that formData() rejects
NotAForm == [form |-> FALSE, file |-> NoField]

FormWith(f) == [form |-> TRUE, file |-> f]

RequestBodies == {NotAForm} \cup {FormWith(f) : f \in FormFields}

\* the body of the upstream answer as res.json() reads it
InvalidJson == [kind |-> "invalid", text |-> Undefined]

JsonNull == [kind |-> "null", text |-> Undefined]

JsonObject(v) == [kind |-> "object", text |-> v]

UpstreamData == {InvalidJson, JsonNull} \cup {JsonObject(v) : v \in JsValues}

\* file instanceof File
isNotNull(file) == file.kind # "null"

isFile(file) == file.kind = "File"

\* NextResponse.json(body, { status })
NoResponse ==
    [status |-> 0, hasText |-> FALSE, text |-> <<>>, chars |-> 0, error |-> ""]

ErrorResponse(status, error) ==
    [status |-> status, hasText |-> FALSE, text |-> <<>>, chars |-> 0,
     error |-> error]

\* data?.text
textField(data) == IF data.kind = "object" THEN data.text ELSE Undefined

\* typeof data?.text === "string" ? data.text : ""
textOfUnguarded(data) == textField(data)

textOf(data) ==
    IF textField(data).type = "string" THEN textField(data) ELSE JsString(<<>>)

\* clean.length
charsOfRaw(raw, clean) == Len(raw)

charsOf(raw, clean) == Len(clean)

\* const clean = reconstructResumeText(v); return NextResponse.json({ text:
\* clean, chars: clean.length }); input.normalize throws on a value that is
\* not a string, and the catch clause answers 500
cleaned(v) ==
    IF v.type = "string"
    THEN [status |-> 200, hasText |-> TRUE,
          text |-> reconstructResumeText(v.value),
          chars |-> charsOf(v.value, reconstructResumeText(v.value)),
          error |-> ""]
    ELSE ErrorResponse(500, "thrown")

\* the answer to an upstream answer that is not OK
localFallback(file) ==
    IF readableLocally(file.type)
    THEN cleaned(JsString(file.content))
    ELSE ErrorResponse(502, "Upstream parse failed")

notOkResponse(file) == ErrorResponse(502, "Upstream parse failed")

InitUpload ==
    /\ upload \in [pc : {"start"}, env : EnvValues, body : RequestBodies,
                   upstream : {<<>>}, fetches : {0}, reads : {0},
                   res : {"none"}, data : {InvalidJson},
                   response : {NoResponse}]
    /\ input = <<>>
    /\ pc = "idle"
    /\ normalized = <<>>
    /\ dehyphenated = <<>>
    /\ lines = <<>>
    /\ i = 0
    /\ out = <<>>
    /\ buf = <<>>
    /\ result = <<>>
    /\ calls = Idle
    /\ chat = Idle
    /\ home = Idle
    /\ state = Idle

notUpload ==
    <<input, pc, normalized, dehyphenated, lines, i, out, buf, result,
      calls, chat, home, state>>

respond(r) ==
    upload' = [upload EXCEPT !.pc = "responded",
                             !.upstream = upstreamOf(upload.env),
                             !.response = r]

\* await req.formData() throws
FormDataThrows ==
    /\ upload.pc = "start"
    /\ ~upload.body.form
    /\ respond(ErrorResponse(500, "thrown"))
    /\ UNCHANGED notUpload

\* !(file instanceof File)
MissingFile ==
    /\ upload.pc = "start"
    /\ upload.body.form
    /\ ~isFile(upload.body.file)
    /\ respond(ErrorResponse(400, "Missing file"))
    /\ UNCHANGED notUpload

\* if (upstream): await fetch(`${upstream}/parse/resume`)
Proxy ==
    /\ upload.pc = "start"
    /\ upload.body.form
    /\ isFile(upload.body.file)
    /\ upstreamOf(upload.env) # <<>>
    /\ upload' = [upload EXCEPT !.pc = "fetch",
                                !.upstream = upstreamOf(upload.env),
                                !.fetches = @ + 1]
    /\ UNCHANGED notUpload

\* local fallback: await file.text()
ReadLocally ==
    /\ upload.pc = "start"
    /\ upload.body.form
    /\ isFile(upload.body.file)
    /\ upstreamOf(upload.env) = <<>>
    /\ readableLocally(upload.body.file.type)
    /\ upload' = [upload EXCEPT !.pc = "read",
                                !.upstream = upstreamOf(upload.env),
                                !.reads = @ + 1]
    /\ UNCHANGED notUpload

Unsupported ==
    /\ upload.pc = "start"
    /\ upload.body.form
    /\ isFile(upload.body.file)
    /\ upstreamOf(upload.env) = <<>>
    /\ ~readableLocally(upload.body.file.type)
    /\ respond(ErrorResponse(501, "PDF parsing backend is not configured"))
    /\ UNCHANGED notUpload

\* fetch rejects
FetchThrows ==
    /\ upload.pc = "fetch"
    /\ upload' = [upload EXCEPT !.pc = "responded",
                                !.res = "rejected",
                                !.response = ErrorResponse(500, "thrown")]
    /\ UNCHANGED notUpload

\* !res.ok
UpstreamNotOk ==
    /\ upload.pc = "fetch"
    /\ upload' = [upload EXCEPT !.pc = "responded",
                                !.res = "notOk",
                                !.response = notOkResponse(upload.body.file)]
    /\ UNCHANGED notUpload

\* res.ok: await res.json(), which throws on a body that is not JSON
UpstreamOk ==
    /\ upload.pc = "fetch"
    /\ \E data \in UpstreamData :
           upload' = [upload EXCEPT
                        !.pc = "responded",
                        !.res = "ok",
                        !.data = data,
                        !.response = IF data.kind = "invalid"
                                     THEN ErrorResponse(500, "thrown")
                                     ELSE cleaned(textOf(data))]
    /\ UNCHANGED notUpload

\* const raw = await file.text()
LocalText ==
    /\ upload.pc = "read"
    /\ respond(cleaned(JsString(upload.body.file.content)))
    /\ UNCHANGED notUpload

NextUpload ==
    \/ FormDataThrows
    \/ MissingFile
    \/ Proxy
    \/ ReadLocally
    \/ Unsupported
    \/ FetchThrows
    \/ UpstreamNotOk
    \/ UpstreamOk
    \/ LocalText

SpecUpload == InitUpload /\ [][NextUpload]_vars

Responded == upload.pc = "responded"

-----------------------------------------------------------------------------
(* C11: the text handed to the reconstructor never makes the handler fail *)

\* the upstream parser answered OK with a body that is JSON
UpstreamParsed == Responded /\ upload.res = "ok" /\ upload.data.kind # "invalid"

\* the JSON of the upstream answer has no text that is a string
TextMissing ==
    upload.data.kind = "null" \/ upload.data.text.type # "string"

\* the file was read by the handler itself
ReadHere == Responded /\ upload.reads = 1

\* C11: whenever the handler got as far as cleaning a text (the upstream
\* parser answered OK with JSON, or the file was read locally) it answers
\* 200, never 500; and when the upstream JSON carries no text, or a text
\* that is not a string, the answer is the empty text of length 0
C11_NeverFailsOnText ==
    /\ (UpstreamParsed \/ ReadHere) => upload.response.status = 200
    /\ (UpstreamParsed /\ TextMissing) =>
           /\ upload.response.hasText
           /\ upload.response.text = <<>>
           /\ upload.response.chars = 0

C11_Witness ==
    /\ UpstreamParsed
    /\ upload.data.kind = "object"
    /\ upload.data.text.type = "number"
    /\ upload.response.status = 200

-----------------------------------------------------------------------------
(* C13: what a 200 answer carries *)

\* the raw text the handler extracted: the text of the upstream JSON (empty
\* when there is none) or the content of the file it read itself
Extracted ==
    IF upload.res = "ok"
    THEN IF upload.data.kind = "object" /\ upload.data.text.type = "string"
         THEN upload.data.text.value
         ELSE <<>>
    ELSE upload.body.file.content

\* C13: every 200 answer, on the upstream path and on the local path,
\* carries as text the reconstructor's output for the extracted raw text
\* and as chars the length of that text
C13_TextAndChars ==
    (Responded /\ upload.response.status = 200) =>
        /\ upload.response.hasText
        /\ upload.response.text = reconstructResumeText(Extracted)
        /\ upload.response.chars = Len(upload.response.text)

C13_Witness ==
    /\ Responded
    /\ upload.response.status = 200
    /\ upload.res = "ok"
    /\ upload.response.text # Extracted
    /\ upload.response.chars = 1

-----------------------------------------------------------------------------
(* C16: the request without a file *)

HasFile == upload.body.file.kind = "File"

MissingFileAnswer ==
    /\ upload.response.status = 400
    /\ upload.response.error = "Missing file"
    /\ ~upload.response.hasText

\* C16 as stated: a request without a 'file' form field that is a File is
\* answered 400 "Missing file" and no upstream request is made
C16_MissingFile ==
    /\ ~HasFile => upload.fetches = 0
    /\ (Responded /\ ~HasFile) => MissingFileAnswer

\* C16: a request whose body is form data without a 'file' field that is a
\* File is answered 400 "Missing file"; a body that is not form data is
\* answered 500; in both cases no upstream request is made and nothing is
\* read locally, whether or not an upstream is configured
C16_MissingFileOfForm ==
    /\ ~HasFile => upload.fetches = 0 /\ upload.reads = 0
    /\ (Responded /\ ~HasFile /\ upload.body.form) => MissingFileAnswer
    /\ (Responded /\ ~upload.body.form) => upload.response.status = 500

C16_Witness ==
    /\ Responded
    /\ upload.body.form
    /\ upload.body.file.kind = "string"
    /\ upload.env.BACKEND_URL = <<"p">>
    /\ MissingFileAnswer

-----------------------------------------------------------------------------
(* C17: the upstream parser, once configured, is the only parser *)

\* the base URL of the upstream parser that the environment gives
Configured ==
    LET url == IF upload.env.BACKEND_URL # <<>>
               THEN upload.env.BACKEND_URL
               ELSE upload.env.NEXT_PUBLIC_BACKEND_URL
    IN  url # <<>> /\ url # <<SLASH>>

\* C17: with an upstream configured, a request with a file is proxied
\* (exactly one upstream request before any answer) and the file is never
\* read locally; an upstream answer that is not OK is answered 502 without
\* text, also for a plain-text file
C17_ProxyOnly ==
    (Configured /\ HasFile /\ upload.body.form) =>
        /\ upload.reads = 0
        /\ Responded => upload.fetches = 1
        /\ (Responded /\ upload.res = "notOk") =>
               /\ upload.response.status = 502
               /\ ~upload.response.hasText
        /\ (Responded /\ upload.response.hasText) => upload.res = "ok"

C17_Witness ==
    /\ Configured
    /\ Responded
    /\ upload.body.file = FileOf(Mime("text", "plain"), <<"a">>)
    /\ upload.res = "notOk"
    /\ upload.response.status = 502

-----------------------------------------------------------------------------
(* C14: a blank line ends the paragraph *)

\* the characters of a text that the reconstruction neither drops nor adds:
\* all but white space and hyphens
Kept(s) == SelectSeq(s, LAMBDA c : ~IsWhite(c) /\ c # HYPHEN)

\* the texts of a sequence, one after the other
RECURSIVE Concat(_)
Concat(ss) == IF ss = <<>> THEN <<>> ELSE Head(ss) \o Concat(Tail(ss))

\* the output lines rs fall apart into those made of the lines of ls before
\* line k and those made of the lines after it
SplitsAt(ls, k, rs) ==
    \E m \in 0..Len(rs) :
        /\ Kept(Concat(SubSeq(rs, 1, m))) = Kept(Concat(SubSeq(ls, 1, k - 1)))
        /\ Kept(Concat(SubSeq(rs, m + 1, Len(rs)))) =
               Kept(Concat(SubSeq(ls, k + 1, Len(ls))))

\* C14: for every blank line of the input, the lines of the output are
\* those made of the text before the blank line followed by those made of
\* the text after it: no output line has text from both sides
C14_BlankLineSeparates ==
    Done =>
        \A k \in 1..Len(LinesOf(input)) :
            IsBlank(LinesOf(input)[k]) =>
                SplitsAt(LinesOf(input), k, LinesOf(result))

\* a blank line between two lines of text that would be joined without it
C14_Witness ==
    /\ Done
    /\ Len(LinesOf(input)) = 3
    /\ LinesOf(input)[1] = <<"a">>
    /\ LinesOf(input)[2] = <<>>
    /\ LinesOf(input)[3] = <<"a">>
    /\ Len(LinesOf(result)) = 2

-----------------------------------------------------------------------------
(* C15: white space of the output *)

\* C15: no line of the output begins or ends with white space, and no line
\* of the output has two white-space characters in a row
C15_NoExcessWhiteSpace ==
    Done =>
        \A k \in 1..Len(LinesOf(result)) :
            LET l == LinesOf(result)[k]
            IN  /\ NoOuterWhite(l)
                /\ \A j \in 1..(Len(l) - 1) : ~(IsWhite(l[j]) /\ IsWhite(l[j + 1]))

-----------------------------------------------------------------------------
(* Concurrent requests: several calls of reconstructResumeText in flight *)

MaxLenCall == 3

\* two requests in flight
Reqs == {1, 2}

AlphabetCall == {"a", ".", LF}

\* where the bindings out and buf of the call of request r live: one place
\* for all calls, as bindings of the module would be
SharedSlot(r) == 1

\* the bindings are made by the call: each call has its own
Slot(r) == r

NoParagraphs == [out |-> <<>>, buf |-> <<>>]

InitCalls ==
    /\ calls \in [input : [Reqs -> Texts(AlphabetCall, MaxLenCall)],
                  pc : {[r \in Reqs |-> "enter"]},
                  lines : {[r \in Reqs |-> <<>>]},
                  i : {[r \in Reqs |-> 0]},
                  store : {[r \in Reqs |-> NoParagraphs]},
                  response : {[r \in Reqs |-> <<>>]}]
    /\ input = <<>>
    /\ pc = "idle"
    /\ normalized = <<>>
    /\ dehyphenated = <<>>
    /\ lines = <<>>
    /\ i = 0
    /\ out = <<>>
    /\ buf = <<>>
    /\ result = <<>>
    /\ upload = Idle
    /\ chat = Idle
    /\ home = Idle
    /\ state = Idle

notCalls ==
    <<input, pc, normalized, dehyphenated, lines, i, out, buf, result,
      upload, chat, home, state>>

\* lines 60-76: normalized, dehyphenated, lines, the regexes, out = [], buf = ""
CallEnter(r) ==
    /\ calls.pc[r] = "enter"
    /\ calls' = [calls EXCEPT
                   !.lines[r] = SplitLines(Dehyphenate(NFKC(calls.input[r]))),
                   !.i[r] = 0,
                   !.store[Slot(r)] = NoParagraphs,
                   !.pc[r] = "loop"]
    /\ UNCHANGED notCalls

\* one pass of the body of the for loop
CallIterate(r) ==
    /\ calls.pc[r] = "loop"
    /\ calls.i[r] < Len(calls.lines[r])
    /\ calls' = [calls EXCEPT
                   !.store[Slot(r)] = LoopBody(@, CurOf(calls.lines[r], calls.i[r]),
                                               NextOf(calls.lines[r], calls.i[r])),
                   !.i[r] = @ + 1]
    /\ UNCHANGED notCalls

\* the loop is left: the final flush()
CallExit(r) ==
    /\ calls.pc[r] = "loop"
    /\ calls.i[r] >= Len(calls.lines[r])
    /\ calls' = [calls EXCEPT !.store[Slot(r)] = flush(@), !.pc[r] = "tidy"]
    /\ UNCHANGED notCalls

\* return out.join("\n")...
CallReturn(r) ==
    /\ calls.pc[r] = "tidy"
    /\ calls' = [calls EXCEPT !.response[r] = Tidy(calls.store[Slot(r)].out),
                              !.pc[r] = "done"]
    /\ UNCHANGED notCalls

NextCalls ==
    \E r \in Reqs :
        \/ CallEnter(r)
        \/ CallIterate(r)
        \/ CallExit(r)
        \/ CallReturn(r)

SpecCalls == InitCalls /\ [][NextCalls]_vars

-----------------------------------------------------------------------------
(* C12: concurrent calls do not disturb each other *)

\* C12: in every interleaving of the steps of the calls in flight, a call
\* that has returned has returned what the reconstructor returns for its
\* own input
C12_Isolated ==
    \A r \in Reqs :
        calls.pc[r] = "done" =>
            calls.response[r] = reconstructResumeText(calls.input[r])

\* the second call ran from its entry to its return while the first was in
\* its loop with a paragraph pending, and both returned different texts
C12_Witness ==
    /\ calls.pc[1] = "loop"
    /\ calls.i[1] = 1
    /\ calls.store[1].buf = <<"a">>
    /\ calls.pc[2] = "done"
    /\ calls.input[2] = <<".", LF, "a">>
    /\ calls.response[2] = <<".", LF, "a">>

-----------------------------------------------------------------------------
(* POST /api/chat: one request *)

\* a property of the body: not there, the empty string or a string
FieldValues == {Undefined, JsString(<<>>), JsString(<<"a">>)}

\* body.history: not there, an array of messages, or a value that cannot
\* be spread
NoHistory == [kind |-> "undefined", items |-> <<>>]

HistoryOf(ms) == [kind |-> "array", items |-> ms]

BadHistory == [kind |-> "number", items |-> <<>>]

Histories == {NoHistory, HistoryOf(<<>>), HistoryOf(<<"m">>), BadHistory}

\* what req.json() gives: it throws, or the value is null, a number or an
\* object
ChatBody(kind, j, r, q, h) ==
    [kind |-> kind, job_id |-> j, resume_text |-> r, question |-> q,
     history |-> h]

ChatBodies ==
    {ChatBody(k, Undefined, Undefined, Undefined, NoHistory) :
         k \in {"invalid", "null", "number"}}
        \cup {ChatBody("object", j, r, q, h) :
                  j \in FieldValues, r \in FieldValues, q \in FieldValues,
                  h \in Histories}

\* what the backend answers with: a body that is not JSON, null, or an
\* object whose text is there or not
BackendData ==
    {InvalidJson, JsonNull, JsonObject(Undefined), JsonObject(JsString(<<"a">>))}

\* !v
isDefined(v) == v.type # "undefined"

truthy(v) == v.type = "string" /\ v.value # <<>>

\* !body.job_id || !body.resume_text || !body.question
incomplete(body) ==
    ~truthy(body.job_id) \/ ~truthy(body.resume_text) \/ ~truthy(body.question)

\* [...(body.history ?? []), { role: "user", content: ... }]
messagesOf(body) ==
    (IF body.history.kind = "array" THEN body.history.items ELSE <<>>)
        \o <<[role |-> "user", job_id |-> body.job_id.value,
              resume_text |-> body.resume_text.value,
              question |-> body.question.value]>>

ChatAnswer(status, answer, error) ==
    [status |-> status, answer |-> answer, error |-> error]

\* data.text ?? "(no answer)"
answerOf(data) ==
    IF data.text.type = "undefined" THEN <<"(no answer)">> ELSE data.text.value

InitChat ==
    /\ chat \in [pc : {"start"}, body : ChatBodies, requests : {0},
                 messages : {<<>>}, r : {"none"}, data : {InvalidJson},
                 response : {ChatAnswer(0, <<>>, "")}]
    /\ input = <<>>
    /\ pc = "idle"
    /\ normalized = <<>>
    /\ dehyphenated = <<>>
    /\ lines = <<>>
    /\ i = 0
    /\ out = <<>>
    /\ buf = <<>>
    /\ result = <<>>
    /\ upload = Idle
    /\ calls = Idle
    /\ home = Idle
    /\ state = Idle

notChat ==
    <<input, pc, normalized, dehyphenated, lines, i, out, buf, result,
      upload, calls, home, state>>

reply(r) == chat' = [chat EXCEPT !.pc = "responded", !.response = r]

\* await req.json() throws, or body is null and body.job_id throws
BodyThrows ==
    /\ chat.pc = "start"
    /\ chat.body.kind \in {"invalid", "null"}
    /\ reply(ChatAnswer(500, <<>>, "thrown"))
    /\ UNCHANGED notChat

Incomplete ==
    /\ chat.pc = "start"
    /\ chat.body.kind \notin {"invalid", "null"}
    /\ incomplete(chat.body)
    /\ reply(ChatAnswer(400, <<>>, "job_id, resume_text, question are required"))
    /\ UNCHANGED notChat

\* ...(body.history ?? []) throws on a value that is not iterable
HistoryThrows ==
    /\ chat.pc = "start"
    /\ chat.body.kind \notin {"invalid", "null"}
    /\ ~incomplete(chat.body)
    /\ chat.body.history.kind = "number"
    /\ reply(ChatAnswer(500, <<>>, "thrown"))
    /\ UNCHANGED notChat

\* await fetch(`${API}/chat/ask`, ...)
Ask ==
    /\ chat.pc = "start"
    /\ chat.body.kind \notin {"invalid", "null"}
    /\ ~incomplete(chat.body)
    /\ chat.body.history.kind # "number"
    /\ chat' = [chat EXCEPT !.pc = "fetch",
                            !.requests = @ + 1,
                            !.messages = messagesOf(chat.body)]
    /\ UNCHANGED notChat

BackendThrows ==
    /\ chat.pc = "fetch"
    /\ chat' = [chat EXCEPT !.pc = "responded",
                            !.r = "rejected",
                            !.response = ChatAnswer(500, <<>>, "thrown")]
    /\ UNCHANGED notChat

\* !r.ok
BackendNotOk ==
    /\ chat.pc = "fetch"
    /\ chat' = [chat EXCEPT !.pc = "responded",
                            !.r = "notOk",
                            !.response = ChatAnswer(502, <<>>, "Backend error")]
    /\ UNCHANGED notChat

\* r.ok: await r.json() throws on a body that is not JSON, data.text throws
\* on null
BackendOk ==
    /\ chat.pc = "fetch"
    /\ \E data \in BackendData :
           chat' = [chat EXCEPT
                      !.pc = "responded",
                      !.r = "ok",
                      !.data = data,
                      !.response = IF data.kind \in {"invalid", "null"}
                                   THEN ChatAnswer(500, <<>>, "thrown")
                                   ELSE ChatAnswer(200, answerOf(data), "")]
    /\ UNCHANGED notChat

NextChat ==
    \/ BodyThrows
    \/ Incomplete
    \/ HistoryThrows
    \/ Ask
    \/ BackendThrows
    \/ BackendNotOk
    \/ BackendOk

SpecChat == InitChat /\ [][NextChat]_vars

-----------------------------------------------------------------------------
(* C18: the answers of POST /api/chat *)

Answered == chat.pc = "responded"

\* a required field is not there or is the empty string
Lacks(v) == v.type = "undefined" \/ (v.type = "string" /\ v.value = <<>>)

\* the body is JSON and job_id, resume_text or question is missing or empty
SomethingMissing ==
    /\ chat.body.kind # "invalid"
    /\ \/ chat.body.kind # "object"
       \/ Lacks(chat.body.job_id)
       \/ Lacks(chat.body.resume_text)
       \/ Lacks(chat.body.question)

\* an error was thrown inside the handler
Thrown ==
    \/ chat.body.kind \in {"invalid", "null"}
    \/ (chat.requests = 0 /\ ~SomethingMissing /\ chat.body.history.kind = "number")
    \/ chat.r = "rejected"
    \/ (chat.r = "ok" /\ chat.data.kind \in {"invalid", "null"})

\* C18 as stated: a request with job_id, resume_text or question missing
\* or empty is answered 400 and no request goes to the backend; a backend
\* answer that is not OK gives 502; a thrown error gives 500
C18_Required ==
    /\ SomethingMissing => chat.requests = 0
    /\ (Answered /\ SomethingMissing) => chat.response.status = 400
    /\ (Answered /\ chat.r = "notOk") => chat.response.status = 502
    /\ (Answered /\ Thrown /\ ~SomethingMissing) => chat.response.status = 500

\* C18: a request whose body is JSON other than null with job_id,
\* resume_text or question missing or empty is answered 400; a null body is
\* answered 500; in both cases no request goes to the backend; a backend
\* answer that is not OK gives 502; a thrown error gives 500; only an OK
\* backend answer gives 200
C18_RequiredOfBody ==
    /\ SomethingMissing => chat.requests = 0
    /\ (Answered /\ SomethingMissing /\ chat.body.kind # "null") =>
           chat.response.status = 400
    /\ (Answered /\ chat.r = "notOk") => chat.response.status = 502
    /\ (Answered /\ Thrown) => chat.response.status = 500
    /\ (Answered /\ chat.response.status = 200) =>
           chat.r = "ok" /\ chat.requests = 1

\* only the question is empty
C18_Witness ==
    /\ Answered
    /\ chat.body.kind = "object"
    /\ chat.body.job_id = JsString(<<"a">>)
    /\ chat.body.resume_text = JsString(<<"a">>)
    /\ chat.body.question = JsString(<<>>)
    /\ chat.response.status = 400
    /\ chat.requests = 0

-----------------------------------------------------------------------------
(* The All Jobs page (HomePage) and its Filters component *)

MaxPage == 2

LIMIT == 21

\* the hours of the 'Last 24h' switch
Hours == 24

Null == [type |-> "null", value |-> <<>>]

Num(n) == [type |-> "number", value |-> <<n>>]

\* a date picked in the date range control
ADate == [type |-> "object", value |-> <<"date">>]

\* JobFilter: a key that is not there reads as undefined
Keys == {"q", "remote", "level", "location", "posted_within_hours"}

\* useState<JobFilter>({ posted_within_hours: null })
initialFilters ==
    [k \in Keys |-> IF k = "posted_within_hours" THEN Null ELSE Undefined]

\* const f = { ...filters }; "" becomes null; posted_within_hours that is
\* undefined becomes null
effectiveFiltersOf(filters) ==
    [k \in Keys |->
        IF filters[k] = JsString(<<>>) THEN Null
        ELSE IF k = "posted_within_hours" /\ filters[k] = Undefined THEN Null
        ELSE filters[k]]

\* FiltersState of the controls
QTexts == {<<>>, <<"x">>}

Policies == {"any", "remote", "hybrid", "onsite"}

Seniorities ==
    {"any", "junior", "mid", "senior", "lead", "staff", "principal"}

Ranges ==
    {[from |-> Null, to |-> Null], [from |-> ADate, to |-> Null],
     [from |-> ADate, to |-> ADate]}

\* toInternalState that leaves the level of the parent out
toInternalStateNoLevel(value) ==
    [q |-> IF value.q.type = "string" THEN value.q.value ELSE <<>>,
     policy |-> IF value.remote = JsString(<<"true">>) THEN "remote"
                ELSE IF value.remote = JsString(<<"false">>) THEN "onsite"
                ELSE "any",
     seniority |-> "any",
     last24h |-> value.posted_within_hours = Num(Hours),
     range |-> [from |-> Null, to |-> Null]]

\* toInternalState(value)
toInternalState(value) ==
    [q |-> IF value.q.type = "string" THEN value.q.value ELSE <<>>,
     policy |-> IF value.remote = JsString(<<"true">>) THEN "remote"
                ELSE IF value.remote = JsString(<<"false">>) THEN "onsite"
                ELSE "any",
     seniority |-> IF value.level.type = "string" THEN value.level.value[1]
                   ELSE "any",
     last24h |-> value.posted_within_hours = Num(Hours),
     range |-> [from |-> Null, to |-> Null]]

\* !!state.range?.from || !!state.range?.to
hasRange(st) == st.range.from # Null \/ st.range.to # Null

\* handleApply: the parentFilter handed to onChange
parentFilterOf(st) ==
    [k \in Keys |->
        CASE k = "q" -> IF st.q = <<>> THEN Null ELSE JsString(st.q)
          [] k = "level" ->
                 IF st.seniority = "any" THEN Null ELSE JsString(<<st.seniority>>)
          [] k = "posted_within_hours" -> IF st.last24h THEN Num(Hours) ELSE Null
          [] k = "remote" ->
                 IF st.policy = "remote" THEN JsString(<<"true">>)
                 ELSE IF st.policy = "onsite" THEN JsString(<<"false">>)
                 ELSE Null
          [] k = "location" -> Undefined]

\* handleReset: the filter handed to onChange
resetFilter == [k \in Keys |-> IF k = "location" THEN Undefined ELSE Null]

\* setFilters((prev) => ({ ...prev, ...next, posted_within_hours:
\* next?.posted_within_hours ?? null }))
onChange(prev, nxt) ==
    [k \in Keys |->
        IF k = "posted_within_hours"
        THEN IF nxt[k] \in {Undefined, Null} THEN Null ELSE nxt[k]
        ELSE IF nxt[k] # Undefined THEN nxt[k] ELSE prev[k]]

\* a search request: newPage, q_offset, q_limit and the body
NoSearch == [page |-> 0, offset |-> 0, limit |-> 0, body |-> initialFilters]

SearchFor(newPage, filter) ==
    [page |-> newPage, offset |-> (newPage - 1) * LIMIT, limit |-> LIMIT,
     body |-> filter]

\* the onRefresh that a running handleCleanup holds: the page and the
\* filters of the render in which the button was clicked
NoCleanup == [pending |-> FALSE, page |-> 0, filter |-> initialFilters]

\* loadJobsForPage(newPage) of a render with the given effectiveFilters:
\* the search in flight is aborted, and its finally clause sets loading to
\* false after this call has set it to true
loadJobsForPage(h, newPage, filter) ==
    [h EXCEPT !.loading = (h.search = NoSearch),
              !.error = FALSE,
              !.search = SearchFor(newPage, filter)]

\* useEffect(() => { loadJobsForPage(1) }, [effectiveFilters])
samePage(h) == h.page

firstPage(h) == 1

\* onChange of <Filters>: setFilters, then the effect of the new
\* effectiveFilters
filtersChanged(h, nxt) ==
    LET f == onChange(h.filters, nxt)
    IN  loadJobsForPage([h EXCEPT !.filters = f, !.applied24h = (nxt.posted_within_hours = Num(Hours))],
                        firstPage(h), effectiveFiltersOf(f))

InitHome ==
    /\ home = [pc |-> "mounting", filters |-> initialFilters, page |-> 1,
               loading |-> TRUE, hasMore |-> TRUE, error |-> FALSE,
               jobs |-> 0, search |-> NoSearch, cleanup |-> NoCleanup,
               applied24h |-> FALSE]
    /\ state = toInternalState(initialFilters)
    /\ input = <<>>
    /\ pc = "idle"
    /\ normalized = <<>>
    /\ dehyphenated = <<>>
    /\ lines = <<>>
    /\ i = 0
    /\ out = <<>>
    /\ buf = <<>>
    /\ result = <<>>
    /\ upload = Idle
    /\ calls = Idle
    /\ chat = Idle

notHome ==
    <<input, pc, normalized, dehyphenated, lines, i, out, buf, result,
      upload, calls, chat>>

Mounted == home.pc = "mounted"

\* the effects of the first render: the initial load
Mount ==
    /\ home.pc = "mounting"
    /\ home' = [loadJobsForPage(home, firstPage(home), effectiveFiltersOf(home.filters))
                    EXCEPT !.pc = "mounted"]
    /\ state' = toInternalState(home.filters)
    /\ UNCHANGED notHome

\* the text input
TypeQuery ==
    /\ Mounted
    /\ \E q \in QTexts : state' = [state EXCEPT !.q = q]
    /\ UNCHANGED <<home, notHome>>

\* last24h after the date range control gave [from, to]:
\* (from || to) ? false : state.last24h
last24hKept(st, r) == st.last24h

last24hAfterRange(st, r) ==
    IF r.from # Null \/ r.to # Null THEN FALSE ELSE st.last24h

\* the policy control
SetPolicy ==
    /\ Mounted
    /\ \E v \in Policies : state' = [state EXCEPT !.policy = v]
    /\ UNCHANGED <<home, notHome>>

\* the seniority control
SetSeniority ==
    /\ Mounted
    /\ \E v \in Seniorities : state' = [state EXCEPT !.seniority = v]
    /\ UNCHANGED <<home, notHome>>

\* the date range control
PickRange ==
    /\ Mounted
    /\ \E r \in Ranges :
           state' = [state EXCEPT !.range = r,
                                  !.last24h = last24hAfterRange(state, r)]
    /\ UNCHANGED <<home, notHome>>

\* the 'Last 24h' switch, disabled while a range is set
ToggleLast24h ==
    /\ Mounted
    /\ ~hasRange(state)
    /\ LET checked == ~(state.last24h /\ ~hasRange(state))
       IN  state' = [state EXCEPT
                       !.last24h = checked,
                       !.range = IF checked THEN [from |-> Null, to |-> Null]
                                 ELSE state.range]
    /\ UNCHANGED <<home, notHome>>

\* the Apply button: handleApply, the parent's onChange, and the effects of
\* the new filters in the page and in the component
Apply ==
    /\ Mounted
    /\ home' = filtersChanged(home, parentFilterOf(state))
    /\ state' = toInternalState(home'.filters)
    /\ UNCHANGED notHome

\* the Reset button
Reset ==
    /\ Mounted
    /\ home' = filtersChanged(home, resetFilter)
    /\ state' = toInternalState(home'.filters)
    /\ UNCHANGED notHome

\* the search in flight answers OK with n jobs
SearchSucceeds ==
    /\ home.search # NoSearch
    /\ \E n \in {0, LIMIT} :
           home' = [home EXCEPT !.jobs = n,
                                !.page = home.search.page,
                                !.hasMore = (n = LIMIT),
                                !.loading = FALSE,
                                !.search = NoSearch]
    /\ UNCHANGED <<state, notHome>>

\* the search in flight fails
SearchFails ==
    /\ home.search # NoSearch
    /\ home' = [home EXCEPT !.error = TRUE, !.loading = FALSE,
                            !.search = NoSearch]
    /\ UNCHANGED <<state, notHome>>

ClickPrevious ==
    /\ Mounted
    /\ ~(home.page <= 1 \/ home.loading)
    /\ home' = loadJobsForPage(home, home.page - 1, effectiveFiltersOf(home.filters))
    /\ UNCHANGED <<state, notHome>>

ClickNext ==
    /\ Mounted
    /\ ~(~home.hasMore \/ home.loading)
    /\ home.page < MaxPage
    /\ home' = loadJobsForPage(home, home.page + 1, effectiveFiltersOf(home.filters))
    /\ UNCHANGED <<state, notHome>>

\* the Refresh button: onRefresh
ClickRefresh ==
    /\ Mounted
    /\ home' = loadJobsForPage(home, home.page, effectiveFiltersOf(home.filters))
    /\ UNCHANGED <<state, notHome>>

\* the Clean button: handleCleanup up to await fetch('/api/jobs/cleanup')
ClickCleanup ==
    /\ Mounted
    /\ ~home.cleanup.pending
    /\ home' = [home EXCEPT
                  !.error = FALSE,
                  !.cleanup = [pending |-> TRUE, page |-> home.page,
                               filter |-> effectiveFiltersOf(home.filters)]]
    /\ UNCHANGED <<state, notHome>>

\* the cleanup request is answered: onRefresh() of the render of the click
CleanupAnswered ==
    /\ home.cleanup.pending
    /\ home' = [loadJobsForPage(home, home.cleanup.page, home.cleanup.filter)
                    EXCEPT !.cleanup = NoCleanup]
    /\ UNCHANGED <<state, notHome>>

\* the cleanup request fails
CleanupFails ==
    /\ home.cleanup.pending
    /\ home' = [home EXCEPT !.error = TRUE, !.cleanup = NoCleanup]
    /\ UNCHANGED <<state, notHome>>

NextHome ==
    \/ Mount
    \/ TypeQuery
    \/ PickRange
    \/ ToggleLast24h
    \/ Apply
    \/ Reset
    \/ SearchSucceeds
    \/ SearchFails
    \/ ClickPrevious
    \/ ClickNext
    \/ ClickRefresh
    \/ ClickCleanup
    \/ CleanupAnswered
    \/ CleanupFails

SpecHome == InitHome /\ [][NextHome]_vars

\* the Filters component with all its controls, and the page as the parent
\* that feeds the applied filters back
NextFilters ==
    \/ Mount
    \/ TypeQuery
    \/ SetPolicy
    \/ SetSeniority
    \/ PickRange
    \/ ToggleLast24h
    \/ Apply
    \/ Reset

SpecFilters == InitHome /\ [][NextFilters]_vars

-----------------------------------------------------------------------------
(* C19: the 24-hour cutoff of the search requests *)

\* a search request is in flight
Searching == home.search # NoSearch

\* C19: the body of every search request has posted_within_hours null,
\* unless the filter applied last (by Apply, or cleared by Reset) had 'Last
\* 24h' switched on, and then it is 24; it is never left out (undefined);
\* the initial load carries null
C19_NoHiddenCutoff ==
    Searching =>
        home.search.body.posted_within_hours =
            (IF home.applied24h THEN Num(Hours) ELSE Null)

-----------------------------------------------------------------------------
(* C20: a change of the filters goes back to page 1 *)

\* the body of a search with the given filters: empty strings are sent as
\* null, and so is a cutoff that is not there
BodyOf(filters) ==
    [k \in Keys |->
        IF filters[k].type = "string" /\ filters[k].value = <<>> THEN Null
        ELSE IF k = "posted_within_hours" /\ filters[k].type = "undefined"
             THEN Null
             ELSE filters[k]]

\* C20: every step that changes the filters (Apply, Reset) puts a search
\* for page 1 (offset 0) with the new filters in flight, and every step in
\* which a search for page 1 succeeds leaves the page number at 1, whatever
\* it was before
C20_FilterChangeToPageOne ==
    /\ [][(Apply \/ Reset) =>
              /\ home'.search.page = 1
              /\ home'.search.offset = 0
              /\ home'.search.body = BodyOf(home'.filters)]_vars
    /\ [][(SearchSucceeds /\ home.search.page = 1) => home'.page = 1]_vars

\* page 2 is shown, 'Last 24h' has been applied and the search for page 1
\* with it is in flight
C20_Witness ==
    /\ home.page = 2
    /\ home.applied24h
    /\ home.filters.posted_within_hours = Num(Hours)
    /\ home.search = [page |-> 1, offset |-> 0, limit |-> LIMIT,
                      body |-> BodyOf(home.filters)]

-----------------------------------------------------------------------------
(* C21: 'Last 24h' and the date range exclude each other *)

\* a bound of the date range is set
RangeSet(st) == st.range.from # Null \/ st.range.to # Null

\* C21: the state of the controls never has last24h true while a bound of
\* the range is set; every step that sets a range leaves last24h off, and
\* every step that turns last24h on leaves the range empty
C21_Exclusive ==
    /\ [](Mounted => ~(state.last24h /\ RangeSet(state)))
    /\ [][(Mounted /\ state'.range # state.range /\ RangeSet(state')) =>
              ~state'.last24h]_vars
    /\ [][(Mounted /\ ~state.last24h /\ state'.last24h) =>
              ~RangeSet(state')]_vars

\* 'Last 24h' was applied, and then a range was picked
C21_Witness ==
    /\ Mounted
    /\ home.filters.posted_within_hours = Num(Hours)
    /\ state.range = [from |-> ADate, to |-> ADate]
    /\ ~state.last24h

-----------------------------------------------------------------------------
(* C22: Apply and the value fed back *)

\* C22: in every Apply step, with the parent's new filters fed back as
\* value, the controls show q, seniority and last24h as they were selected,
\* and policy as it was selected, except that for 'hybrid' the parent gets
\* remote = null and the control comes back as 'any'
C22_RoundTrip ==
    [][Apply =>
          /\ state'.q = state.q
          /\ state'.seniority = state.seniority
          /\ state'.last24h = state.last24h
          /\ state.policy # "hybrid" => state'.policy = state.policy
          /\ state.policy = "hybrid" =>
                 home'.filters.remote = Null /\ state'.policy = "any"]_vars

\* a selection of all four controls has been applied and has come back
C22_Witness ==
    /\ Mounted
    /\ state.q = <<"x">>
    /\ state.policy = "onsite"
    /\ state.seniority = "senior"
    /\ state.last24h
    /\ home.filters.q = JsString(<<"x">>)
    /\ home.filters.remote = JsString(<<"false">>)
    /\ home.filters.level = JsString(<<"senior">>)
    /\ home.filters.posted_within_hours = Num(Hours)

-----------------------------------------------------------------------------
(* C23: no empty line in the output *)

\* the number of lines of a text, none for the empty text
LineCount(s) == IF s = <<>> THEN 0 ELSE Len(LinesOf(s))

\* the number of lines of a text that are not blank
NonBlankCount(s) ==
    Cardinality({k \in 1..Len(LinesOf(s)) : ~IsBlank(LinesOf(s)[k])})

-----------------------------------------------------------------------------
(* C24: the text is kept *)

\* the characters of a text that are not white space
NonWhiteOf(s) == SelectSeq(s, LAMBDA c : ~IsWhite(c))

\* at position k of s: a hyphen after a letter and before a line feed that
\* a letter follows
SoftHyphenAt(s, k) ==
    /\ k > 1 /\ k + 2 <= Len(s)
    /\ s[k] = HYPHEN
    /\ IsAlpha(s[k - 1])
    /\ s[k + 1] = LF
    /\ IsAlpha(s[k + 2])

\* s from position k on without the hyphens of its soft line breaks
RECURSIVE WithoutSoftHyphensFrom(_, _)
WithoutSoftHyphensFrom(s, k) ==
    IF k > Len(s) THEN <<>>
    ELSE (IF SoftHyphenAt(s, k) THEN <<>> ELSE <<s[k]>>)
             \o WithoutSoftHyphensFrom(s, k + 1)

WithoutSoftHyphens(s) == WithoutSoftHyphensFrom(s, 1)

====
